---- MODULE Spec2Model ----
(***************************************************************************)
(* A model of httpclient.py (web-page-replay): the chunked body reader     *)
(* DetailedHTTPResponse.read_chunks, the live fetcher RealHttpFetch, the   *)
(* record and replay strategies and the mode-switchable dispatcher         *)
(* ControllableHttpArchiveFetch.                                           *)
(*                                                                         *)
(* Three specifications share the module:                                  *)
(*   Spec        the dispatcher with its two strategies; a __call__ runs   *)
(*               statement group by statement group, and the callers call  *)
(*               one at a time: every operation (__call__, SetRecordMode,  *)
(*               SetReplayMode) returns before the next is called          *)
(*   SpecChunks  read_chunks run loop iteration by loop iteration over a   *)
(*               byte stream drawn from a bounded family of wire bodies    *)
(*   SpecThreads the same steps with the callers' calls overlapping: two   *)
(*               threads inside __call__ at once, with mode switches in    *)
(*               between (the class holds no lock)                         *)
(*                                                                         *)
(* Bytes are one-byte strings; "CR", "LF", "TAB", "VT" and "FF" stand for   *)
(* \r, \n, \t, \x0b and \x0c.                                             *)
(***************************************************************************)
EXTENDS Integers, Sequences, FiniteSets, TLC

VARIABLES
  archive,           \* http_archive: a dict from requests to archived responses
  fetch,             \* ControllableHttpArchiveFetch.fetch: "record" | "replay"
  config,            \* the constructor arguments kept by the strategies
  previous_request,  \* RecordHttpArchiveFetch.previous_request
  last,              \* the most recent operation, and what it did and returned
  modeSet,           \* the most recent mode-set call (history)
  trip,              \* progress of a record / SetReplayMode / fetch sequence (history)
  input,             \* SpecChunks: the wire body under read, as it was built
  rd,                \* SpecChunks: the state of read_chunks
  live_fetches,      \* per request, the live fetches that returned a response (history)
  overwritten,       \* the requests whose archive entry a store replaced (history)
  threads,           \* the __call__ each thread is running
  schedule           \* how the callers call: one at a time, or overlapping

vars == <<archive, fetch, config, previous_request, last, modeSet, trip, input,
          rd, live_fetches, overwritten, threads, schedule>>

\* Python's None; every object of the model is a record with a kind
None == [kind |-> "None"]

(***************************************************************************)
(* Bounds of the wire bodies.                                              *)
(***************************************************************************)
MaxChunks == 2
MaxTrailers == 1

\* the count of live fetches of one request stops here
MaxLiveFetches == 2

\* the largest chunk size told apart from a larger one
MaxSize == 1048575

----------------------------------------------------------------------------
(***************************************************************************)
(* Byte strings.                                                           *)
(***************************************************************************)
CR == "CR"
LF == "LF"
CRLF == <<CR, LF>>
TAB == "TAB"
VT == "VT"
FF == "FF"

\* the bytes int() skips around the number: ' \t\n\r\x0b\x0c'
Whitespace == {" ", TAB, LF, CR, VT, FF}

HexChars == {"0", "1", "2", "3", "4", "5", "6", "7", "8", "9",
             "a", "b", "c", "d", "e", "f", "A", "B", "C", "D", "E", "F"}

HexValue(c) ==
  CASE c = "0" -> 0 [] c = "1" -> 1 [] c = "2" -> 2 [] c = "3" -> 3
    [] c = "4" -> 4 [] c = "5" -> 5 [] c = "6" -> 6 [] c = "7" -> 7
    [] c = "8" -> 8 [] c = "9" -> 9
    [] c \in {"a", "A"} -> 10 [] c \in {"b", "B"} -> 11
    [] c \in {"c", "C"} -> 12 [] c \in {"d", "D"} -> 13
    [] c \in {"e", "E"} -> 14 [] c \in {"f", "F"} -> 15

RECURSIVE Join(_)
\* ''.join(chunks)
Join(chunks) ==
  IF chunks = <<>> THEN <<>> ELSE Head(chunks) \o Join(Tail(chunks))

\* s[:n]
Take(s, n) == SubSeq(s, 1, IF n < Len(s) THEN n ELSE Len(s))

\* s[n:]
Drop(s, n) == SubSeq(s, n + 1, Len(s))

RECURSIVE Find(_, _, _)
\* line.find(c): the first index (from 0) of c in s at or after i, or -1
Find(s, c, i) ==
  IF i >= Len(s) THEN -1
  ELSE IF s[i + 1] = c THEN i
  ELSE Find(s, c, i + 1)

RECURSIVE LStrip(_)
LStrip(s) ==
  IF s # <<>> /\ Head(s) \in Whitespace THEN LStrip(Tail(s)) ELSE s

RECURSIVE RStrip(_)
RStrip(s) ==
  IF s # <<>> /\ s[Len(s)] \in Whitespace
    THEN RStrip(SubSeq(s, 1, Len(s) - 1))
    ELSE s

RECURSIVE HexDigitsValue(_, _)
\* the value of a sequence of hexadecimal digits, most significant first.
\* Python's integers have no upper limit; here the digits after a value of
\* MaxSize or more (more bytes than any stream holds) are left out, so such
\* values are told apart from the smaller ones, not from each other.
HexDigitsValue(s, acc) ==
  IF s = <<>> \/ acc >= MaxSize THEN acc
  ELSE HexDigitsValue(Tail(s), 16 * acc + HexValue(Head(s)))

\* mutant of ParseInt16: int(line), base 10
ParseInt10(line) ==
  LET s == RStrip(LStrip(line)) IN
    IF s # <<>> /\ \A i \in 1..Len(s) : s[i] \in HexChars /\ HexValue(s[i]) < 10
      THEN [error |-> FALSE, value |-> HexDigitsValue(s, 0)]
      ELSE [error |-> TRUE, value |-> 0]

\* int(line, 16), after the whitespace, the sign and the prefix: one or more
\* hexadecimal digits.  [error, value]: error stands for ValueError
ParseDigits(negative, digits) ==
  IF digits # <<>> /\ \A i \in 1..Len(digits) : digits[i] \in HexChars
    THEN [error |-> FALSE,
          value |-> (IF negative THEN -1 ELSE 1) * HexDigitsValue(digits, 0)]
    ELSE [error |-> TRUE, value |-> 0]

\* int(line, 16), after the whitespace and the sign: an optional 0x or 0X
\* that a hexadecimal digit follows
ParsePrefixed(negative, u) ==
  ParseDigits(negative,
              IF Len(u) >= 3 /\ u[1] = "0" /\ u[2] \in {"x", "X"}
                   /\ u[3] \in HexChars
                THEN Drop(u, 2) ELSE u)

\* int(line, 16), after the whitespace: an optional sign, and whitespace
\* again between the sign and the number
ParseSigned(s) ==
  ParsePrefixed(s # <<>> /\ Head(s) = "-",
                IF s # <<>> /\ Head(s) \in {"+", "-"}
                  THEN LStrip(Tail(s)) ELSE s)

\* int(line, 16): the surrounding whitespace is skipped
ParseInt16(line) == ParseSigned(RStrip(LStrip(line)))

----------------------------------------------------------------------------
(***************************************************************************)
(* DetailedHTTPResponse: the stream primitives read_chunks uses.           *)
(***************************************************************************)

\* fp.readline(): the bytes up to and including the first LF, or all that is
\* left when there is no LF ('' at end of stream)
ReadLine(fp) ==
  LET i == Find(fp, LF, 0) IN
    IF i = -1 THEN fp ELSE Take(fp, i + 1)

\* _read_chunk_size(line): [raised, none, value]; none stands for the None
\* of line 73, value is the size otherwise.  The slice at line 69 names
\* extention_pos, which is defined nowhere: a line holding ';' raises NameError.
_read_chunk_size(line) ==
  LET chunk_extensions_pos == Find(line, ";", 0)
      chunk_size == ParseInt16(line)
  IN  IF chunk_extensions_pos # -1
        THEN [raised |-> "NameError", none |-> FALSE, value |-> 0]
        ELSE [raised |-> "none", none |-> chunk_size.error,
              value |-> chunk_size.value]

\* _safe_read(amt): exactly amt bytes, or IncompleteRead when the stream ends
\* before them; its loop runs while amt > 0, so for a negative amt it reads
\* nothing and returns ''
_safe_read(fp, amt) ==
  IF amt <= 0
    THEN [raised |-> "none", data |-> <<>>, fp |-> fp]
  ELSE IF Len(fp) < amt
    THEN [raised |-> "IncompleteRead", data |-> fp, fp |-> <<>>]
    ELSE [raised |-> "none", data |-> Take(fp, amt), fp |-> Drop(fp, amt)]

(***************************************************************************)
(* read_chunks as a state machine.  A reader state holds the stream still  *)
(* to be read (fp), the list chunks, whether close() has run, and where    *)
(* the method is: "size" (the loop of lines 46-54), "trailers" (the loop   *)
(* of lines 57-60), "returned" or "raised".  fault is what goes wrong in    *)
(* HTTPResponse.read() of a non-chunked body, whether read() closes the    *)
(* response before it raises, and how many bytes of the body the socket    *)
(* had delivered when it failed.                                           *)
(***************************************************************************)
NoFault == [exc |-> "none", closes |-> TRUE, received |-> 0]

ReaderIdle ==
  [phase |-> "idle", fp |-> <<>>, chunks |-> <<>>, closed |-> FALSE,
   exc |-> "none", payload |-> <<>>, fault |-> NoFault]

\* the response as getresponse() hands it over: headers parsed, body unread
ReaderStart(wire) ==
  [phase |-> IF wire.chunked THEN "size" ELSE "plain",
   fp |-> wire.body, chunks |-> <<>>, closed |-> FALSE,
   exc |-> "none", payload |-> <<>>, fault |-> wire.fault]

\* an exception leaves the try block of line 44: the finally clause closes
\* the response and the exception goes on to the caller
RaiseInTry(r, fp, exc, payload) ==
  [r EXCEPT !.phase = "raised", !.fp = fp, !.closed = TRUE,
            !.exc = exc, !.payload = payload]

\* lines 41-42: chunks = [self.read()], outside the try block of line 44.
\* HTTPResponse.read() returns the rest of the body and closes the response
\* once everything is read.  When the body ends before Content-Length bytes,
\* read() has consumed what there was, closes the response and raises
\* IncompleteRead carrying those bytes.  When the socket fails, socket.error
\* goes through read() as it is: the bytes received before the failure are
\* consumed and dropped, and the exception leaves read_chunks at line 42,
\* where no close() runs.
ReadPlainStep(r) ==
  IF r.fault.exc = "none"
    THEN [r EXCEPT !.phase = "returned", !.chunks = <<r.fp>>, !.fp = <<>>,
                   !.closed = TRUE]
  ELSE IF r.fault.exc = "IncompleteRead"
    THEN [r EXCEPT !.phase = "raised", !.exc = r.fault.exc, !.fp = <<>>,
                   !.payload = r.fp, !.closed = r.fault.closes]
    ELSE [r EXCEPT !.phase = "raised", !.exc = r.fault.exc,
                   !.fp = Drop(r.fp, r.fault.received),
                   !.closed = r.fault.closes]

\* one iteration of the loop of lines 46-54
ReadChunkStep(r) ==
  LET line == ReadLine(r.fp)
      fp1 == Drop(r.fp, Len(line))
      chunk_size == _read_chunk_size(line)
  IN  IF chunk_size.raised # "none"
        THEN RaiseInTry(r, fp1, chunk_size.raised, <<>>)
      ELSE IF chunk_size.none
        THEN RaiseInTry(r, fp1, "IncompleteRead", Join(r.chunks))
      ELSE IF chunk_size.value = 0
        THEN [r EXCEPT !.phase = "trailers", !.fp = fp1]
      ELSE
        LET data == _safe_read(fp1, chunk_size.value) IN
          IF data.raised # "none"
            THEN RaiseInTry(r, data.fp, data.raised, data.data)
          ELSE
            LET crlf == _safe_read(data.fp, 2) IN
              IF crlf.raised # "none"
                THEN RaiseInTry([r EXCEPT !.chunks = Append(r.chunks, data.data)],
                                crlf.fp, crlf.raised, crlf.data)
                ELSE [r EXCEPT !.chunks = Append(r.chunks, data.data),
                               !.fp = crlf.fp]

\* one iteration of the loop of lines 57-60, and lines 61-63 when it ends
ReadTrailerStep(r) ==
  LET line == ReadLine(r.fp)
      fp1 == Drop(r.fp, Len(line))
  IN  IF line = <<>> \/ line = CRLF
        THEN [r EXCEPT !.phase = "returned", !.fp = fp1, !.closed = TRUE]
        ELSE [r EXCEPT !.fp = fp1]

ReaderStep(r) ==
  CASE r.phase = "plain" -> ReadPlainStep(r)
    [] r.phase = "size" -> ReadChunkStep(r)
    [] r.phase = "trailers" -> ReadTrailerStep(r)
    [] OTHER -> r

RECURSIVE ReaderRun(_)
ReaderRun(r) ==
  IF r.phase \in {"returned", "raised"} THEN r ELSE ReaderRun(ReaderStep(r))

\* response.read_chunks(): the final reader state
read_chunks(wire) == ReaderRun(ReaderStart(wire))

----------------------------------------------------------------------------
(***************************************************************************)
(* The wire bodies SpecChunks reads: a chunk list, trailer lines, the case *)
(* of the size digits, and at most one departure from the well-formed      *)
(* framing (an extension on every size line, every size written with sign  *)
(* and 0x, a bad size line in place of the k-th, or the stream cut short   *)
(* by some bytes).                                                         *)
(***************************************************************************)
RECURSIVE Fill(_, _)
Fill(c, n) == IF n = 0 THEN <<>> ELSE <<c>> \o Fill(c, n - 1)

Payloads ==
  {<<"a">>, <<"0", CR, LF>>, <<";", "z">>, Fill("z", 10), Fill("f", 27)}

TrailerLine == <<"t", ":", "v", CR, LF>>

BadLines ==
  {<<"z", CR, LF>>, <<CR, LF>>, <<"1", "g", CR, LF>>,
   <<"z", ";", "n", CR, LF>>, <<"-", "1", CR, LF>>,
   <<"-", " ", "1", CR, LF>>}

Extension == <<";", "n", "=", "v">>

MaxCut == 8

HexDigit(d, upper) ==
  CASE d < 10 -> <<"0", "1", "2", "3", "4", "5", "6", "7", "8", "9">>[d + 1]
    [] upper -> <<"A", "B", "C", "D", "E", "F">>[d - 9]
    [] OTHER -> <<"a", "b", "c", "d", "e", "f">>[d - 9]

RECURSIVE ToHex(_, _)
ToHex(n, upper) ==
  IF n < 16 THEN <<HexDigit(n, upper)>>
  ELSE ToHex(n \div 16, upper) \o <<HexDigit(n % 16, upper)>>

\* a size line; a "signed" body writes every size the long way int() also
\* takes: whitespace, a sign, whitespace and 0x in front, whitespace behind
SizeLine(n, in) ==
  (IF in.defect.kind = "signed"
     THEN <<TAB, "+", " ", "0", IF in.upper THEN "X" ELSE "x">>
     ELSE <<>>)
  \o ToHex(n, in.upper)
  \o (IF in.defect.kind = "ext" THEN Extension
      ELSE IF in.defect.kind = "signed" THEN <<" ", FF>>
      ELSE <<>>)
  \o CRLF

RECURSIVE EncodeChunks(_, _, _)
\* the chunks from the k-th on, each as size line, payload, CRLF
EncodeChunks(chunks, k, in) ==
  IF k > Len(chunks) THEN <<>>
  ELSE (IF in.defect.kind = "bad" /\ in.defect.at = k
          THEN in.defect.line
          ELSE SizeLine(Len(chunks[k]), in))
       \o chunks[k] \o CRLF \o EncodeChunks(chunks, k + 1, in)

RECURSIVE Trailers(_)
Trailers(n) == IF n = 0 THEN <<>> ELSE TrailerLine \o Trailers(n - 1)

EncodeChunked(in) ==
  LET whole ==
        EncodeChunks(in.chunks, 1, in)
        \o (IF in.defect.kind = "bad" /\ in.defect.at = Len(in.chunks) + 1
              THEN in.defect.line
              ELSE SizeLine(0, in))
        \o Trailers(in.trailers) \o CRLF
  IN  IF in.defect.kind = "cut"
        THEN Take(whole, Len(whole) - in.defect.at)
        ELSE whole

ChunkLists == UNION {[1..n -> Payloads] : n \in 0..MaxChunks}

Defects(n) ==
  {[kind |-> "none", at |-> 0, line |-> <<>>],
   [kind |-> "ext", at |-> 0, line |-> <<>>],
   [kind |-> "signed", at |-> 0, line |-> <<>>]}
  \cup {[kind |-> "bad", at |-> k, line |-> l] : k \in 1..(n + 1), l \in BadLines}
  \cup {[kind |-> "cut", at |-> m, line |-> <<>>] : m \in 1..MaxCut}

ChunkedInputs ==
  UNION {{[chunked |-> TRUE, chunks |-> cs, trailers |-> t, upper |-> u,
           defect |-> d] : t \in 0..MaxTrailers, u \in BOOLEAN,
                           d \in Defects(Len(cs))} : cs \in ChunkLists}

\* what can go wrong while a non-chunked body b is read: the body ends
\* before Content-Length bytes (IncompleteRead), or the socket fails
\* (socket.error) before any byte of b has arrived or after all of them
PlainDefects(b) ==
  {[kind |-> "none", at |-> 0, line |-> <<>>],
   [kind |-> "IncompleteRead", at |-> 0, line |-> <<>>]}
  \cup {[kind |-> "socket.error", at |-> n, line |-> <<>>] : n \in {0, Len(b)}}

PlainInputs ==
  UNION {{[chunked |-> FALSE, chunks |-> <<b>>, trailers |-> 0,
           upper |-> FALSE, defect |-> d] : d \in PlainDefects(b)} :
         b \in Payloads \cup {<<>>}}

NoInput ==
  [chunked |-> FALSE, chunks |-> <<>>, trailers |-> 0, upper |-> FALSE,
   defect |-> [kind |-> "idle", at |-> 0, line |-> <<>>]]

\* the response on the wire: whether it is chunked, and the bytes of its body
WireOf(in) ==
  [chunked |-> in.chunked,
   body |-> IF in.chunked THEN EncodeChunked(in) ELSE in.chunks[1],
   fault |-> IF in.chunked \/ in.defect.kind = "none"
               THEN NoFault
               ELSE [exc |-> in.defect.kind,
                     closes |-> in.defect.kind = "IncompleteRead",
                     received |-> in.defect.at]]

----------------------------------------------------------------------------
(***************************************************************************)
(* Requests, headers and what the network can answer.                      *)
(***************************************************************************)
ArchivedHttpRequest(command, host, path, request_body) ==
  [kind |-> "ArchivedHttpRequest", command |-> command, host |-> host,
   path |-> path, request_body |-> request_body]

Requests ==
  {ArchivedHttpRequest("GET", "a.example", "/x", ""),
   ArchivedHttpRequest("POST", "b.example", "/y", "q=1")}

HeaderDicts == {<<>>, <<<<"accept", "text/html">>>>}

NoDefect == [kind |-> "none", at |-> 0, line |-> <<>>]

\* the responses a server sends: a plain body, a well-formed chunked body, a
\* chunked body whose size lines carry an extension, one with a bad size line
LiveResponses ==
  {[kind |-> "HTTPResponse", version |-> 11, status |-> 200, reason |-> "OK",
    headers |-> <<<<"content-type", "text/html">>>>,
    wire |-> WireOf([chunked |-> FALSE, chunks |-> <<<<"<", "p", ">">>>>,
                     trailers |-> 0, upper |-> FALSE, defect |-> NoDefect])],
   [kind |-> "HTTPResponse", version |-> 11, status |-> 404,
    reason |-> "Not Found",
    headers |-> <<<<"transfer-encoding", "chunked">>>>,
    wire |-> WireOf([chunked |-> TRUE, chunks |-> <<<<"a">>, <<"z", "z">>>>,
                     trailers |-> 1, upper |-> FALSE, defect |-> NoDefect])],
   [kind |-> "HTTPResponse", version |-> 11, status |-> 200, reason |-> "OK",
    headers |-> <<<<"transfer-encoding", "chunked">>>>,
    wire |-> WireOf([chunked |-> TRUE, chunks |-> <<<<"a">>>>,
                     trailers |-> 0, upper |-> FALSE,
                     defect |-> [kind |-> "ext", at |-> 0, line |-> <<>>]])],
   [kind |-> "HTTPResponse", version |-> 10, status |-> 200, reason |-> "OK",
    headers |-> <<<<"transfer-encoding", "chunked">>>>,
    wire |-> WireOf([chunked |-> TRUE, chunks |-> <<<<"a">>>>,
                     trailers |-> 0, upper |-> FALSE,
                     defect |-> [kind |-> "bad", at |-> 2,
                                 line |-> <<"z", CR, LF>>]])]}

\* what one live fetch meets: the resolver's answer ("" is falsy), the call
\* of lines 103-109 that raises, if any, and the response otherwise (there
\* is nothing to connect to at the address "": connecting would raise)
NetOutcomes ==
  {[host_ip |-> "", raises |-> "connect", response |-> None]}
  \cup {[host_ip |-> "10.0.0.1", raises |-> e, response |-> None] :
          e \in {"connect", "request", "getresponse"}}
  \cup {[host_ip |-> "10.0.0.1", raises |-> "none", response |-> w] :
          w \in LiveResponses}

\* response.read_chunks() for each of these responses
ReadChunksOf == [w \in LiveResponses |-> read_chunks(w.wire)]

\* what inject_deterministic_script does when it is called
InjectOutcomes == {"injected", "unchanged", "InjectionFailedException"}

----------------------------------------------------------------------------
(***************************************************************************)
(* The archive: a dict.                                                    *)
(***************************************************************************)
\* request in http_archive
ArchiveContains(arch, request) == request \in DOMAIN arch

\* http_archive.get(request)
ArchiveGet(arch, request) ==
  IF request \in DOMAIN arch THEN arch[request] ELSE None

\* http_archive[request] = response
ArchiveSet(arch, request, response) ==
  [k \in DOMAIN arch \cup {request} |->
     IF k = request THEN response ELSE arch[k]]

ArchivedHttpResponse(version, status, reason, headers, response_data) ==
  [kind |-> "ArchivedHttpResponse", version |-> version, status |-> status,
   reason |-> reason, headers |-> headers, response_data |-> response_data]

DeterministicScript == <<"<", "s", ">">>

\* inject_deterministic_script(): rewrites the body, leaves it alone when
\* injection is not appropriate, or fails with InjectionFailedException and
\* leaves it alone
inject_deterministic_script(response, how) ==
  IF how = "injected"
    THEN [raised |-> "none",
          response |-> [response EXCEPT !.response_data =
                          <<DeterministicScript \o Join(response.response_data)>>]]
  ELSE IF how = "unchanged"
    THEN [raised |-> "none", response |-> response]
  ELSE [raised |-> how, response |-> response]

\* cache_misses.record_request(request, is_record_mode, is_cache_miss)
record_request(request, is_record_mode, is_cache_miss) ==
  [request |-> request, is_record_mode |-> is_record_mode,
   is_cache_miss |-> is_cache_miss]

----------------------------------------------------------------------------
(***************************************************************************)
(* RealHttpFetch.__call__.  The result of a call says what it returned     *)
(* (response, response_chunks), what it did (lookups: the hosts given to   *)
(* the resolver; resolved: the resolver's answers; connections: the        *)
(* addresses a connection was opened or attempted to; sent: the            *)
(* requests given to connection.request), the exception it caught, the     *)
(* exception it let through (raised) and what it logged.                   *)
(***************************************************************************)

\* mutant of ExceptException: except IOError, which the connection's calls
\* raise and the body reader does not
ExceptIOError(exc) ==
  IF exc \in {"connect", "request", "getresponse"}
    THEN [caught |-> exc, raised |-> "none"]
    ELSE [caught |-> "none", raised |-> exc]

\* lines 112-116: except Exception catches whatever the try block raised,
\* logs it and makes the call return (None, None)
ExceptException(exc) == [caught |-> exc, raised |-> "none"]

\* mutant of HostIpMissing: if host_ip is None
HostIpMissingIsNone(host_ip) == FALSE

\* line 99: if not host_ip
HostIpMissing(host_ip) == host_ip = ""

RealHttpFetch(request, headers, net) ==
  LET quiet == [response |-> None, response_chunks |-> <<>>,
                lookups |-> <<request.host>>, resolved |-> <<net.host_ip>>,
                connections |-> <<>>,
                sent |-> <<>>, caught |-> "none", raised |-> "none",
                closed |-> TRUE, logs |-> <<>>]
      wanted == [command |-> request.command, path |-> request.path,
                 request_body |-> request.request_body, headers |-> headers]
      failed(exc, conns, reqs, closed) ==
        LET handler == ExceptException(exc) IN
          [quiet EXCEPT !.connections = conns, !.sent = reqs,
                        !.caught = handler.caught, !.raised = handler.raised,
                        !.closed = closed,
                        !.logs = IF handler.caught # "none"
                                   THEN <<"critical: Could not fetch">>
                                   ELSE <<>>]
  IN  IF HostIpMissing(net.host_ip)
        THEN [quiet EXCEPT !.logs = <<"critical: Unable to find host ip">>]
      ELSE IF net.raises = "connect"
        THEN failed("connect", <<net.host_ip>>, <<>>, TRUE)
      ELSE IF net.raises = "request"
        THEN failed("request", <<net.host_ip>>, <<>>, TRUE)
      ELSE IF net.raises = "getresponse"
        THEN failed("getresponse", <<net.host_ip>>, <<wanted>>, TRUE)
      ELSE
        LET body == ReadChunksOf[net.response] IN
          IF body.phase = "raised"
            THEN failed(body.exc, <<net.host_ip>>, <<wanted>>, body.closed)
            ELSE [quiet EXCEPT !.response = net.response,
                               !.response_chunks = body.chunks,
                               !.connections = <<net.host_ip>>,
                               !.sent = <<wanted>>,
                               !.closed = body.closed]

----------------------------------------------------------------------------
(***************************************************************************)
(* The strategies.  The result of a strategy call: the strategy that ran,  *)
(* the arguments it received, what it returned (result) or let through     *)
(* (raised), the archive and previous_request it leaves, and what it did   *)
(* on the way: tracker calls, resolver calls, connections, requests sent,  *)
(* what real_http_fetch returned and caught, the outcomes of the injector, *)
(* find_closest_request calls with their answers, diff calls, archive      *)
(* writes (the keys), the calls on the collaborators in the order they     *)
(* were made (trace), log lines.                                           *)
(***************************************************************************)
StrategyCall(strategy, arch, prev, request, request_headers) ==
  [strategy |-> strategy,
   received |-> [request |-> request, request_headers |-> request_headers],
   result |-> None, raised |-> "none", archive |-> arch,
   previous_request |-> prev, tracker |-> <<>>, lookups |-> <<>>,
   resolved |-> <<>>, connections |-> <<>>, sent |-> <<>>,
   live_returned |-> <<>>, caught |-> "none", injections |-> <<>>,
   closest_calls |-> <<>>, diff_calls |-> <<>>, writes |-> <<>>,
   trace |-> <<>>, logs |-> <<>>]

\* lines 147-149
RecordTracker(cfg, request) ==
  IF cfg.cache_misses THEN <<record_request(request, TRUE, FALSE)>> ELSE <<>>

\* mutant of RecordTrace: the tracker is told after the archive lookup
RecordTraceLookupFirst(tracker, steps) ==
  <<Head(steps)>> \o [i \in 1..Len(tracker) |-> "cache_misses.record_request"]
  \o Tail(steps)

\* lines 147-152: the tracker's calls come first, then the steps that start
\* with the archive lookup
RecordTrace(tracker, steps) ==
  [i \in 1..Len(tracker) |-> "cache_misses.record_request"] \o steps

\* mutant of RepeatedRequest: the archive is never consulted
RepeatedRequestNever(arch, request) == FALSE

\* line 152: if request in self.http_archive
RepeatedRequest(arch, request) == ArchiveContains(arch, request)

\* lines 153-157: the archived version is returned
RecordRepeated(call, arch, prev, request) ==
  [call EXCEPT !.result = arch[request],
               !.trace = RecordTrace(call.tracker,
                                     <<"http_archive.__contains__",
                                       "http_archive.__getitem__">>),
               !.logs = <<"debug: Repeated request found",
                          IF prev # None THEN "previous" ELSE "None">>]

\* mutant of RecordLiveFailed: the archive write comes before the None check
RecordLiveFailedStores(call, live) ==
  [call EXCEPT !.result = None, !.raised = live.raised,
               !.archive = ArchiveSet(call.archive, call.received.request,
                                      ArchivedHttpResponse(0, 0, "", <<>>, <<>>)),
               !.writes = <<call.received.request>>,
               !.lookups = live.lookups, !.resolved = live.resolved,
               !.connections = live.connections,
               !.sent = live.sent, !.caught = live.caught,
               !.live_returned = IF live.raised = "none" THEN <<None>> ELSE <<>>,
               !.trace = RecordTrace(call.tracker,
                                     <<"http_archive.__contains__",
                                       "real_http_fetch",
                                       "http_archive.__setitem__">>),
               !.logs = live.logs]

\* lines 161-162, and an exception of real_http_fetch passing through
RecordLiveFailed(call, live) ==
  [call EXCEPT !.result = None, !.raised = live.raised,
               !.lookups = live.lookups, !.resolved = live.resolved,
               !.connections = live.connections,
               !.sent = live.sent, !.caught = live.caught,
               !.live_returned = IF live.raised = "none" THEN <<None>> ELSE <<>>,
               !.trace = RecordTrace(call.tracker,
                                     <<"http_archive.__contains__",
                                       "real_http_fetch">>),
               !.logs = live.logs]

\* mutant of RecordStore: line 176 is missing, nothing is written
RecordStoreUnsaved(call, cfg, arch, request, live, how) ==
  LET archived_http_response ==
        ArchivedHttpResponse(live.response.version, live.response.status,
                             live.response.reason, live.response.headers,
                             live.response_chunks)
      injection ==
        IF cfg.use_deterministic_script
          THEN inject_deterministic_script(archived_http_response, how)
          ELSE [raised |-> "none", response |-> archived_http_response]
  IN  [call EXCEPT !.result = injection.response,
                   !.lookups = live.lookups, !.resolved = live.resolved,
                   !.connections = live.connections,
                   !.sent = live.sent, !.live_returned = <<live.response>>,
                   !.injections =
                     IF cfg.use_deterministic_script THEN <<how>> ELSE <<>>,
                   !.trace = RecordTrace(call.tracker,
                                         <<"http_archive.__contains__",
                                           "real_http_fetch">>),
                   !.logs = live.logs \o <<"debug: Recorded">>]

\* mutant of RecordStore: a failed injection ends the call, nothing is stored
\* and None is returned
RecordStoreInjectedOnly(call, cfg, arch, request, live, how) ==
  LET archived_http_response ==
        ArchivedHttpResponse(live.response.version, live.response.status,
                             live.response.reason, live.response.headers,
                             live.response_chunks)
      injection ==
        IF cfg.use_deterministic_script
          THEN inject_deterministic_script(archived_http_response, how)
          ELSE [raised |-> "none", response |-> archived_http_response]
      kept == injection.raised = "none"
  IN  [call EXCEPT !.result = IF kept THEN injection.response ELSE None,
                   !.archive = IF kept
                                 THEN ArchiveSet(arch, request, injection.response)
                                 ELSE arch,
                   !.writes = IF kept THEN <<request>> ELSE <<>>,
                   !.lookups = live.lookups, !.resolved = live.resolved,
                   !.connections = live.connections,
                   !.sent = live.sent, !.live_returned = <<live.response>>,
                   !.injections =
                     IF cfg.use_deterministic_script THEN <<how>> ELSE <<>>,
                   !.trace = RecordTrace(call.tracker,
                                         <<"http_archive.__contains__",
                                           "real_http_fetch">>),
                   !.logs = live.logs]

\* lines 163-177
RecordStore(call, cfg, arch, request, live, how) ==
  LET archived_http_response ==
        ArchivedHttpResponse(live.response.version, live.response.status,
                             live.response.reason, live.response.headers,
                             live.response_chunks)
      injection ==
        IF cfg.use_deterministic_script
          THEN inject_deterministic_script(archived_http_response, how)
          ELSE [raised |-> "none", response |-> archived_http_response]
      stored == injection.response
  IN  [call EXCEPT !.result = stored,
                   !.archive = ArchiveSet(arch, request, stored),
                   !.writes = <<request>>,
                   !.lookups = live.lookups, !.resolved = live.resolved,
                   !.connections = live.connections,
                   !.sent = live.sent, !.live_returned = <<live.response>>,
                   !.injections =
                     IF cfg.use_deterministic_script THEN <<how>> ELSE <<>>,
                   !.trace = RecordTrace(
                               call.tracker,
                               <<"http_archive.__contains__", "real_http_fetch">>
                               \o (IF cfg.use_deterministic_script
                                     THEN <<"inject_deterministic_script">>
                                     ELSE <<>>)
                               \o <<"http_archive.__setitem__">>),
                   !.logs = live.logs
                            \o (IF injection.raised # "none"
                                  THEN <<"error: Failed to inject deterministic script">>
                                  ELSE <<>>)
                            \o <<"debug: Recorded">>]

\* mutant of ConsultClosest: if self.use_closest_match
ConsultClosestAlways(cfg, response) == cfg.use_closest_match

\* mutant of ConsultClosest: if not response
ConsultClosestUnasked(cfg, response) == response = None

\* line 212: if self.use_closest_match and not response
ConsultClosest(cfg, response) == cfg.use_closest_match /\ response = None

\* mutant of ReplayMiss: the miss is decided by the exact lookup alone
ReplayMissExact(exact, closest_request, response) == exact = None

\* line 223: is_cache_miss=not response
ReplayMiss(exact, closest_request, response) == response = None

\* mutant of ReplayAfterGet: a substituted response is stored under the
\* requested key
ReplayAfterGetCaching(call, arch, cfg, request, exact, closest) ==
  LET consult == ConsultClosest(cfg, exact)
      closest_request == IF consult THEN closest ELSE None
      response ==
        IF consult /\ closest_request # None
          THEN ArchiveGet(arch, closest_request)
          ELSE exact
      is_cache_miss == ReplayMiss(exact, closest_request, response)
  IN  [call EXCEPT
         !.result = response,
         !.archive = IF consult /\ response # None
                       THEN ArchiveSet(arch, request, response) ELSE arch,
         !.writes = IF consult /\ response # None THEN <<request>> ELSE <<>>,
         !.closest_calls =
           IF consult
             THEN <<[request |-> request, use_path |-> TRUE,
                     returned |-> closest_request]>>
             ELSE <<>>,
         !.tracker =
           IF cfg.cache_misses
             THEN <<record_request(request, FALSE, is_cache_miss)>>
             ELSE <<>>,
         !.diff_calls =
           IF response = None /\ cfg.use_diff_on_unknown_requests
             THEN <<request>> ELSE <<>>,
         !.trace =
           <<"http_archive.get">>
           \o (IF consult THEN <<"http_archive.find_closest_request">> ELSE <<>>)
           \o (IF consult /\ closest_request # None
                 THEN <<"http_archive.get">> ELSE <<>>)
           \o (IF cfg.cache_misses
                 THEN <<"cache_misses.record_request">> ELSE <<>>)
           \o (IF response = None /\ cfg.use_diff_on_unknown_requests
                 THEN <<"http_archive.diff">> ELSE <<>>),
         !.logs =
           (IF consult /\ closest_request # None /\ response # None
              THEN <<"info: Request not found, using closest match">>
              ELSE <<>>)
           \o (IF response = None
                 THEN <<"warning: Could not replay">> ELSE <<>>)]

\* lines 212-234: the rest of ReplayHttpArchiveFetch.__call__ once line 210
\* has looked the request up (exact); closest is what find_closest_request
\* answers if it is asked
ReplayAfterGet(call, arch, cfg, request, exact, closest) ==
  LET consult == ConsultClosest(cfg, exact)
      closest_request == IF consult THEN closest ELSE None
      response ==
        IF consult /\ closest_request # None
          THEN ArchiveGet(arch, closest_request)
          ELSE exact
      is_cache_miss == ReplayMiss(exact, closest_request, response)
  IN  [call EXCEPT
         !.result = response,
         !.closest_calls =
           IF consult
             THEN <<[request |-> request, use_path |-> TRUE,
                     returned |-> closest_request]>>
             ELSE <<>>,
         !.tracker =
           IF cfg.cache_misses
             THEN <<record_request(request, FALSE, is_cache_miss)>>
             ELSE <<>>,
         !.diff_calls =
           IF response = None /\ cfg.use_diff_on_unknown_requests
             THEN <<request>> ELSE <<>>,
         !.trace =
           <<"http_archive.get">>
           \o (IF consult THEN <<"http_archive.find_closest_request">> ELSE <<>>)
           \o (IF consult /\ closest_request # None
                 THEN <<"http_archive.get">> ELSE <<>>)
           \o (IF cfg.cache_misses
                 THEN <<"cache_misses.record_request">> ELSE <<>>)
           \o (IF response = None /\ cfg.use_diff_on_unknown_requests
                 THEN <<"http_archive.diff">> ELSE <<>>),
         !.logs =
           (IF consult /\ closest_request # None /\ response # None
              THEN <<"info: Request not found, using closest match">>
              ELSE <<>>)
           \o (IF response = None
                 THEN <<"warning: Could not replay">> ELSE <<>>)]

----------------------------------------------------------------------------
(***************************************************************************)
(* ControllableHttpArchiveFetch and the threads that call it.  A __call__  *)
(* runs statement group by statement group, split where it reads or writes *)
(* the archive or waits for the network.  The class holds no lock, so what *)
(* runs between two steps of a call is up to the callers; schedule says    *)
(* how they call:                                                          *)
(*   "one at a time"  every operation returns before the next is called    *)
(*   "per request"    calls overlap, those for one request do not (the     *)
(*                    callers hold a lock per request); the setters are    *)
(*                    called at any moment                                 *)
(*   "free"           calls and setters overlap as they come               *)
(***************************************************************************)

\* the archives a dispatcher is constructed over
Prerecorded ==
  ArchivedHttpResponse(11, 200, "OK", <<<<"content-type", "text/css">>>>,
                       <<<<"c", "s", "s">>>>)

InitArchives == UNION {[S -> {Prerecorded}] : S \in SUBSET Requests}

Configs ==
  [use_deterministic_script : BOOLEAN, use_diff_on_unknown_requests : BOOLEAN,
   use_record_mode : BOOLEAN, cache_misses : BOOLEAN,
   use_closest_match : BOOLEAN]

\* history: a record-mode fetch of R whose live fetch returned a response,
\* then SetReplayMode, then a fetch of R that has returned and that no call
\* has followed
TripIdle == [stage |-> "idle", request |-> None, response |-> None]

\* the history after a call for request has returned; out is the strategy
\* call it forwarded to.  The history is of operations called one at a time.
TripAfterCall(sch, t, request, out) ==
  IF sch # "one at a time" THEN t
  ELSE IF t.stage = "switched" /\ request = t.request
    THEN [t EXCEPT !.stage = "replayed"]
  ELSE IF out.strategy = "record" /\ out.live_returned # <<>>
            /\ out.live_returned[1] # None
    THEN [stage |-> "recorded", request |-> request, response |-> out.result]
  ELSE TripIdle

\* history: the most recent operation, for operations called one at a time:
\* a call's entry and its return are then the latest event there is, and the
\* return tells what the call did.  The setters are recorded as they come.
LastAfter(sch, l, event) == IF sch = "one at a time" THEN event ELSE l

\* history: real_http_fetch returned a response for the request (line 160)
LiveFetchesAfter(lf, request, live_returned) ==
  IF live_returned # <<>> /\ live_returned[1] # None
       /\ lf[request] < MaxLiveFetches
    THEN [lf EXCEPT ![request] = @ + 1]
    ELSE lf

\* history: line 176 ran for a key that had an entry
OverwrittenAfter(ow, arch, writes) ==
  ow \cup {writes[i] : i \in {j \in DOMAIN writes : ArchiveContains(arch, writes[j])}}

\* the threads that call the dispatcher
Threads == {"t1", "t2"}

\* a thread outside __call__
ThreadIdle ==
  [pc |-> "idle", bound |-> "none", mode_at_start |-> "none",
   request |-> None, request_headers |-> None, before |-> None,
   call |-> None, live |-> None, exact |-> None, steps |-> <<>>,
   switched |-> FALSE]

\* no thread is inside __call__
AllIdle(ths) == \A u \in DOMAIN ths : ths[u].pc = "idle"

\* the lock of a request is free: no other thread is inside a call for it
KeyFree(ths, t, request) ==
  \A u \in DOMAIN ths \ {t} : ths[u].pc = "idle" \/ ths[u].request # request

\* thread t may enter __call__(request) under the callers' schedule
MayCall(sch, ths, t, request) ==
  /\ sch = "one at a time" => AllIdle(ths)
  /\ sch = "per request" => KeyFree(ths, t, request)

\* a setter may be called under the callers' schedule
MaySet(sch, ths) == sch = "one at a time" => AllIdle(ths)

\* history: a mode switch while a thread is inside __call__
Switched(ths) ==
  [t \in DOMAIN ths |->
     IF ths[t].pc = "idle" THEN ths[t] ELSE [ths[t] EXCEPT !.switched = TRUE]]

\* mutant of StepStrategy: self.fetch is read again at every step of the call
StepStrategyCurrent(bound, current) == current

\* line 276: self.fetch is evaluated once, and the strategy it gave runs the
\* whole call
StepStrategy(bound, current) == bound

\* a thread takes a step of the strategy that runs its call
Advance(th, strategy, step, pc) ==
  [th EXCEPT !.pc = pc,
             !.steps = @ \o <<[strategy |-> strategy, step |-> step]>>]

\* the constructor arguments, request headers and network answers of the
\* runs whose calls overlap: record or replay at first, with or without
\* closest match; the resolver finds no address, or the server answers with
\* a plain or a chunked body
ThreadConfigs ==
  {c \in Configs : /\ ~c.use_deterministic_script
                   /\ ~c.use_diff_on_unknown_requests
                   /\ ~c.cache_misses}

ThreadHeaderDicts == {<<<<"accept", "text/html">>>>}

ThreadNetOutcomes ==
  {n \in NetOutcomes :
     \/ n.host_ip = ""
     \/ n.raises = "none" /\ ReadChunksOf[n.response].phase = "returned"}

\* the request headers the callers pass, and what the network answers
CallHeaderDicts(sch) ==
  IF sch = "one at a time" THEN HeaderDicts ELSE ThreadHeaderDicts

CallNetOutcomes(sch) ==
  IF sch = "one at a time" THEN NetOutcomes ELSE ThreadNetOutcomes

\* lines 257-266: __init__; the callers call one at a time
Init ==
  /\ archive \in InitArchives
  /\ config \in Configs
  /\ fetch = (IF config.use_record_mode THEN "record" ELSE "replay")
  /\ modeSet = (IF config.use_record_mode THEN "SetRecordMode" ELSE "SetReplayMode")
  /\ previous_request = None
  /\ last = [op |-> "__init__"]
  /\ trip = TripIdle
  /\ input = NoInput
  /\ rd = ReaderIdle
  /\ live_fetches = [r \in Requests |-> 0]
  /\ overwritten = {}
  /\ threads = [t \in Threads |-> ThreadIdle]
  /\ schedule = "one at a time"

\* lines 257-266: __init__; the callers' calls overlap
InitThreads ==
  /\ archive \in InitArchives
  /\ config \in ThreadConfigs
  /\ fetch = (IF config.use_record_mode THEN "record" ELSE "replay")
  /\ modeSet = (IF config.use_record_mode THEN "SetRecordMode" ELSE "SetReplayMode")
  /\ previous_request = None
  /\ last = [op |-> "__init__"]
  /\ trip = TripIdle
  /\ input = NoInput
  /\ rd = ReaderIdle
  /\ live_fetches = [r \in Requests |-> 0]
  /\ overwritten = {}
  /\ threads = [t \in Threads |-> ThreadIdle]
  /\ schedule \in {"per request", "free"}

\* lines 268-269
SetRecordMode ==
  /\ MaySet(schedule, threads)
  /\ fetch' = "record"
  /\ modeSet' = "SetRecordMode"
  /\ last' = [op |-> "SetRecordMode"]
  /\ trip' = TripIdle
  /\ threads' = Switched(threads)
  /\ UNCHANGED <<archive, config, previous_request, input, rd, live_fetches,
                 overwritten, schedule>>

\* mutant of SetReplayMode: self.fetch = self.record_fetch
SetReplayModeAsRecord ==
  /\ MaySet(schedule, threads)
  /\ fetch' = "record"
  /\ modeSet' = "SetReplayMode"
  /\ last' = [op |-> "SetReplayMode"]
  /\ trip' = (IF trip.stage = "recorded"
                THEN [trip EXCEPT !.stage = "switched"] ELSE TripIdle)
  /\ threads' = Switched(threads)
  /\ UNCHANGED <<archive, config, previous_request, input, rd, live_fetches,
                 overwritten, schedule>>

\* lines 271-272
SetReplayMode ==
  /\ MaySet(schedule, threads)
  /\ fetch' = "replay"
  /\ modeSet' = "SetReplayMode"
  /\ last' = [op |-> "SetReplayMode"]
  /\ trip' = (IF trip.stage = "recorded"
                THEN [trip EXCEPT !.stage = "switched"] ELSE TripIdle)
  /\ threads' = Switched(threads)
  /\ UNCHANGED <<archive, config, previous_request, input, rd, live_fetches,
                 overwritten, schedule>>

\* line 276: __call__ is entered and self.fetch is evaluated
Begin(t, request, request_headers) ==
  /\ threads[t].pc = "idle"
  /\ MayCall(schedule, threads, t, request)
  /\ threads' = [threads EXCEPT ![t] =
                   [@ EXCEPT !.pc = "bound", !.bound = fetch,
                             !.mode_at_start = modeSet,
                             !.request = request,
                             !.request_headers = request_headers,
                             !.before = archive]]
  /\ last' = LastAfter(schedule, last, [op |-> "__call__ entered"])
  /\ trip' = (IF trip.stage = "replayed" THEN TripIdle ELSE trip)
  /\ UNCHANGED <<archive, fetch, config, previous_request, modeSet,
                 input, rd, live_fetches, overwritten, schedule>>

\* lines 147-157: the tracker, the membership test, the archived version
RecordCheck(t) ==
  /\ threads[t].pc = "bound"
  /\ StepStrategy(threads[t].bound, fetch) = "record"
  /\ \E call \in {[StrategyCall("record", archive, previous_request,
                                threads[t].request, threads[t].request_headers)
                     EXCEPT !.tracker = RecordTracker(config, threads[t].request)]} :
       threads' = [threads EXCEPT ![t] =
         IF RepeatedRequest(archive, threads[t].request)
           THEN [Advance(@, "record", "lookup", "done")
                   EXCEPT !.call = RecordRepeated(call, archive, previous_request,
                                                  threads[t].request)]
           ELSE [Advance(@, "record", "lookup", "missed") EXCEPT !.call = call]]
  /\ UNCHANGED <<archive, fetch, config, previous_request, last, modeSet,
                 trip, input, rd, live_fetches, overwritten, schedule>>

\* lines 159-162: the live fetch.  Line 159 assigns the local name
\* previous_request, so self.previous_request stays as it was.
RecordLive(t) ==
  /\ threads[t].pc = "missed"
  /\ StepStrategy(threads[t].bound, fetch) = "record"
  /\ \E net \in CallNetOutcomes(schedule) :
       \E live \in {RealHttpFetch(threads[t].request,
                                  threads[t].request_headers, net)} :
         IF live.raised # "none" \/ live.response = None
           THEN /\ threads' = [threads EXCEPT ![t] =
                     [Advance(@, "record", "live fetch", "done")
                        EXCEPT !.call = RecordLiveFailed(threads[t].call, live)]]
                /\ UNCHANGED live_fetches
           ELSE /\ threads' = [threads EXCEPT ![t] =
                     [Advance(@, "record", "live fetch", "fetched")
                        EXCEPT !.live = live]]
                /\ live_fetches' = LiveFetchesAfter(live_fetches,
                                                    threads[t].request,
                                                    <<live.response>>)
  /\ UNCHANGED <<archive, fetch, config, previous_request, last, modeSet,
                 trip, input, rd, overwritten, schedule>>

\* lines 163-177: the archived response is built, injected into and stored
RecordWrite(t) ==
  /\ threads[t].pc = "fetched"
  /\ StepStrategy(threads[t].bound, fetch) = "record"
  /\ \E how \in (IF config.use_deterministic_script
                   THEN InjectOutcomes ELSE {"unchanged"}) :
       \E out \in {RecordStore(threads[t].call, config, archive,
                               threads[t].request, threads[t].live, how)} :
         /\ archive' = out.archive
         /\ overwritten' = OverwrittenAfter(overwritten, archive, out.writes)
         /\ threads' = [threads EXCEPT ![t] =
              [Advance(@, "record", "store", "done") EXCEPT !.call = out]]
  /\ UNCHANGED <<fetch, config, previous_request, last, modeSet, trip, input,
                 rd, live_fetches, schedule>>

\* line 210: response = self.http_archive.get(request)
ReplayGet(t) ==
  /\ threads[t].pc = "bound"
  /\ StepStrategy(threads[t].bound, fetch) = "replay"
  /\ threads' = [threads EXCEPT ![t] =
       [Advance(@, "replay", "get", "got")
          EXCEPT !.exact = ArchiveGet(archive, threads[t].request),
                 !.call = StrategyCall("replay", archive, previous_request,
                                       threads[t].request,
                                       threads[t].request_headers)]]
  /\ UNCHANGED <<archive, fetch, config, previous_request, last, modeSet,
                 trip, input, rd, live_fetches, overwritten, schedule>>

\* lines 212-234: the closest match, the tracker, the logging
ReplayRest(t) ==
  /\ threads[t].pc = "got"
  /\ StepStrategy(threads[t].bound, fetch) = "replay"
  /\ \E closest \in Requests \cup {None} :
       threads' = [threads EXCEPT ![t] =
         [Advance(@, "replay", "closest", "done")
            EXCEPT !.call = ReplayAfterGet(threads[t].call, archive, config,
                                           threads[t].request, threads[t].exact,
                                           closest)]]
  /\ UNCHANGED <<archive, fetch, config, previous_request, last, modeSet,
                 trip, input, rd, live_fetches, overwritten, schedule>>

\* lines 274-276: __call__ returns what the strategy returned; a caller that
\* held a lock lets go of it
Return(t) ==
  /\ threads[t].pc = "done"
  /\ threads' = [threads EXCEPT ![t] = ThreadIdle]
  /\ last' = LastAfter(schedule, last,
                       [op |-> "__call__", request |-> threads[t].request,
                        request_headers |-> threads[t].request_headers,
                        fetch |-> threads[t].bound,
                        before |-> threads[t].before,
                        invoked |-> <<threads[t].call>>,
                        result |-> threads[t].call.result,
                        raised |-> threads[t].call.raised])
  /\ trip' = TripAfterCall(schedule, trip, threads[t].request, threads[t].call)
  /\ UNCHANGED <<archive, fetch, config, previous_request, modeSet,
                 input, rd, live_fetches, overwritten, schedule>>

Next ==
  \/ \E t \in Threads, request \in Requests,
        request_headers \in CallHeaderDicts(schedule) :
       Begin(t, request, request_headers)
  \/ \E t \in Threads : RecordCheck(t)
  \/ \E t \in Threads : RecordLive(t)
  \/ \E t \in Threads : RecordWrite(t)
  \/ \E t \in Threads : ReplayGet(t)
  \/ \E t \in Threads : ReplayRest(t)
  \/ \E t \in Threads : Return(t)
  \/ SetRecordMode
  \/ SetReplayMode

\* the dispatcher used by callers that call one at a time
Spec == Init /\ [][Next]_vars

\* the dispatcher used by callers whose calls overlap
SpecThreads == InitThreads /\ [][Next]_vars

----------------------------------------------------------------------------
(***************************************************************************)
(* SpecChunks: read_chunks over every wire body of the family, one loop    *)
(* iteration per step.                                                     *)
(***************************************************************************)
InitChunks ==
  /\ input \in ChunkedInputs \cup PlainInputs
  /\ rd = ReaderStart(WireOf(input))
  /\ archive = [r \in {} |-> None]
  /\ config = [use_deterministic_script |-> FALSE,
               use_diff_on_unknown_requests |-> FALSE,
               use_record_mode |-> TRUE, cache_misses |-> FALSE,
               use_closest_match |-> FALSE]
  /\ fetch = "record"
  /\ modeSet = "SetRecordMode"
  /\ previous_request = None
  /\ last = [op |-> "__init__"]
  /\ trip = TripIdle
  /\ live_fetches = [r \in Requests |-> 0]
  /\ overwritten = {}
  /\ threads = [t \in Threads |-> ThreadIdle]
  /\ schedule = "one at a time"

\* lines 41-42 and 63
ReadPlain ==
  /\ rd.phase = "plain"
  /\ rd' = ReadPlainStep(rd)
  /\ UNCHANGED <<archive, fetch, config, previous_request, last, modeSet,
                 trip, input, live_fetches, overwritten, threads, schedule>>

\* lines 46-54
ReadChunk ==
  /\ rd.phase = "size"
  /\ rd' = ReadChunkStep(rd)
  /\ UNCHANGED <<archive, fetch, config, previous_request, last, modeSet,
                 trip, input, live_fetches, overwritten, threads, schedule>>

\* lines 57-63
ReadTrailer ==
  /\ rd.phase = "trailers"
  /\ rd' = ReadTrailerStep(rd)
  /\ UNCHANGED <<archive, fetch, config, previous_request, last, modeSet,
                 trip, input, live_fetches, overwritten, threads, schedule>>

NextChunks == ReadPlain \/ ReadChunk \/ ReadTrailer

SpecChunks == InitChunks /\ [][NextChunks]_vars

----------------------------------------------------------------------------
(***************************************************************************)
(* Properties.  Called is true when a __call__ has returned and nothing    *)
(* was called since; Ran is the strategy call it forwarded to.             *)
(***************************************************************************)
Called == last.op = "__call__"

Ran == last.invoked[1]

Offline(out) ==
  out.lookups = <<>> /\ out.connections = <<>> /\ out.sent = <<>>

\* C1 (dedup invariant): a record-mode fetch of a request that is in the
\* archive returns the entry stored under it, looks up no host, opens no
\* connection, sends nothing and leaves the archive as it was.
C1_RecordDedup ==
  (Called /\ last.fetch = "record"
     /\ ArchiveContains(last.before, last.request))
  => /\ last.result = last.before[last.request]
     /\ last.raised = "none"
     /\ Offline(Ran)
     /\ Ran.live_returned = <<>>
     /\ Ran.writes = <<>>
     /\ archive = last.before

\* a repeat of a request that an earlier record-mode fetch stored
C1_Witness ==
  /\ Called /\ last.fetch = "record"
  /\ ArchiveContains(last.before, last.request)
  /\ last.before[last.request] # Prerecorded
  /\ last.result = last.before[last.request]

\* C2 (record-then-replay round trip): after a record-mode fetch of R that
\* stored a live response, then SetReplayMode, a fetch of R returns the
\* response the record-mode call returned (same version, status, reason,
\* headers and chunks), without any live fetch.
C2_RoundTrip ==
  trip.stage = "replayed"
  => /\ Called /\ last.fetch = "replay" /\ last.request = trip.request
     /\ last.result = trip.response
     /\ last.result.kind = "ArchivedHttpResponse"
     /\ last.raised = "none"
     /\ Offline(Ran)

\* the round trip of a chunked response with the script injected
C2_Witness ==
  /\ trip.stage = "replayed"
  /\ last.result = trip.response
  /\ last.result.status = 404
  /\ Len(last.result.response_data) = 1
  /\ Take(last.result.response_data[1], 3) = DeterministicScript

\* C3 (one active strategy): the active strategy is the one the most recent
\* mode-set call names (the constructor's by use_record_mode), and a fetch
\* is forwarded once, to that strategy, with the caller's arguments, and its
\* result is returned as it is.
C3_ActiveStrategy ==
  /\ fetch \in {"record", "replay"}
  /\ fetch = (IF modeSet = "SetRecordMode" THEN "record" ELSE "replay")
  /\ last.op = "__init__" => (fetch = "record" <=> config.use_record_mode)
  /\ last.op = "SetRecordMode" => fetch = "record"
  /\ last.op = "SetReplayMode" => fetch = "replay"
  /\ Called
     => /\ Len(last.invoked) = 1
        /\ Ran.strategy = last.fetch
        /\ last.fetch = fetch
        /\ Ran.received = [request |-> last.request,
                           request_headers |-> last.request_headers]
        /\ last.result = Ran.result
        /\ last.raised = Ran.raised

\* a fetch served by the replay strategy of a dispatcher built in record mode
C3_Witness ==
  /\ Called /\ config.use_record_mode /\ modeSet = "SetReplayMode"
  /\ Ran.strategy = "replay"
  /\ last.request_headers # <<>>
  /\ last.result # None

\* C4 (exact replay hit): a replay fetch of a request that is a key of the
\* archive returns the response stored under it, with closest-match enabled
\* or not, and find_closest_request is not called.
C4_ReplayExact ==
  (Called /\ last.fetch = "replay"
     /\ ArchiveContains(last.before, last.request))
  => /\ last.result = last.before[last.request]
     /\ Ran.closest_calls = <<>>

\* an exact hit with closest-match enabled and another entry in the archive
C4_Witness ==
  /\ Called /\ last.fetch = "replay" /\ config.use_closest_match
  /\ ArchiveContains(last.before, last.request)
  /\ \E other \in DOMAIN last.before :
       last.before[other] # last.before[last.request]
  /\ last.result = last.before[last.request]

\* C5 (closest match): a replay fetch of a request with no exact entry
\* returns, with closest-match enabled and find_closest_request (use_path)
\* answering C, the archive's response for C; with closest-match disabled it
\* returns None and find_closest_request is not called.
C5_ReplayClosest ==
  (Called /\ last.fetch = "replay"
     /\ ~ArchiveContains(last.before, last.request))
  => /\ config.use_closest_match
        => /\ Len(Ran.closest_calls) = 1
           /\ Ran.closest_calls[1].request = last.request
           /\ Ran.closest_calls[1].use_path
           /\ Ran.closest_calls[1].returned # None
              => last.result = ArchiveGet(last.before,
                                          Ran.closest_calls[1].returned)
     /\ ~config.use_closest_match
        => /\ last.result = None
           /\ Ran.closest_calls = <<>>

\* a substitution: the response of another request is returned
C5_Witness ==
  /\ Called /\ last.fetch = "replay" /\ config.use_closest_match
  /\ ~ArchiveContains(last.before, last.request)
  /\ Len(Ran.closest_calls) = 1
  /\ Ran.closest_calls[1].returned \in DOMAIN last.before
  /\ last.result = last.before[Ran.closest_calls[1].returned]

\* C6 (failed live fetch): when a record-mode fetch misses the archive and
\* real_http_fetch returns None, the call returns None and the archive is
\* unchanged, the request still absent; and every record-mode fetch of an
\* absent request goes to the live fetch (the resolver is asked).
C6_RecordLiveFailure ==
  (Called /\ last.fetch = "record"
     /\ ~ArchiveContains(last.before, last.request))
  => /\ Ran.lookups = <<last.request.host>>
     /\ Ran.live_returned = <<None>>
        => /\ last.result = None
           /\ last.raised = "none"
           /\ Ran.writes = <<>>
           /\ archive = last.before
           /\ ~ArchiveContains(archive, last.request)

\* a transport failure after the request was sent
C6_Witness ==
  /\ Called /\ last.fetch = "record"
  /\ ~ArchiveContains(last.before, last.request)
  /\ Ran.live_returned = <<None>>
  /\ Ran.caught = "getresponse"
  /\ Len(Ran.sent) = 1
  /\ last.result = None

\* C7 (replay is read-only and offline): a replay fetch (hit, substitution
\* or miss) looks up no host, opens no connection, sends nothing and writes
\* nothing to the archive.
C7_ReplayReadOnly ==
  (Called /\ last.fetch = "replay")
  => /\ Offline(Ran)
     /\ Ran.live_returned = <<>>
     /\ Ran.writes = <<>>
     /\ archive = last.before

\* a substitution that leaves the requested key absent
C7_Witness ==
  /\ Called /\ last.fetch = "replay"
  /\ ~ArchiveContains(last.before, last.request)
  /\ last.result # None
  /\ ~ArchiveContains(archive, last.request)

\* C8 (miss tracking in replay): with a tracker, a replay fetch makes one
\* record_request call, for the request, with is_record_mode false and
\* is_cache_miss true exactly when the call returns no response.
C8_ReplayTracker ==
  (Called /\ last.fetch = "replay")
  => /\ config.cache_misses
        => Ran.tracker =
             <<record_request(last.request, FALSE, last.result = None)>>
     /\ ~config.cache_misses => Ran.tracker = <<>>

\* find_closest_request names a request the archive has nothing for: a miss
C8_Witness ==
  /\ Called /\ last.fetch = "replay" /\ config.cache_misses
  /\ Len(Ran.closest_calls) = 1
  /\ Ran.closest_calls[1].returned # None
  /\ last.result = None
  /\ Len(Ran.tracker) = 1
  /\ Ran.tracker[1].is_cache_miss

\* C9 (no failure escapes): whatever the resolver, the connection, the body
\* reader, the injector and the archive lookup do, a fetch returns an
\* archived response or None and lets no exception through.
C9_NoException ==
  Called
  => /\ last.raised = "none"
     /\ last.result = None \/ last.result.kind = "ArchivedHttpResponse"

\* a framing failure of the body reader, turned into None
C9_Witness ==
  /\ Called /\ last.fetch = "record"
  /\ Ran.caught = "IncompleteRead"
  /\ last.result = None
  /\ last.raised = "none"

\* C10 (chunked decoding): for a well-formed chunked body (chunks c1..cn,
\* a zero-size chunk, trailer lines, an empty line) read_chunks returns
\* exactly <<c1, ..., cn>>, having closed the response.
C10_ChunkedRoundTrip ==
  (input.chunked /\ input.defect.kind = "none")
  => /\ rd.phase # "raised"
     /\ rd.phase = "returned"
        => /\ rd.chunks = input.chunks
           /\ rd.fp = <<>>
     /\ rd.phase \in {"size", "trailers"}
        => /\ Len(rd.chunks) <= Len(input.chunks)
           /\ \A i \in 1..Len(rd.chunks) : rd.chunks[i] = input.chunks[i]

\* two chunks, one of 27 bytes and one holding CR LF, and a trailer
C10_Witness ==
  /\ input.chunked /\ input.defect.kind = "none"
  /\ rd.phase = "returned"
  /\ input.trailers = 1
  /\ Len(input.chunks) = 2
  /\ Len(input.chunks[1]) = 27
  /\ input.chunks[2] = <<"0", CR, LF>>
  /\ rd.chunks = input.chunks

\* read_chunks has returned or raised
ReaderDone == rd.phase \in {"returned", "raised"}

\* C11 (chunk extensions): a chunked body whose size lines carry a
\* ';'-delimited extension yields the same chunks as the body without the
\* extensions, and the extension causes no failure.
C11_ExtensionStripped ==
  (input.chunked /\ input.defect.kind = "ext")
  => /\ rd.phase # "raised"
     /\ rd.phase = "returned" => rd.chunks = input.chunks

\* the bytes in front of the k-th size line of a chunked body
RECURSIVE BeforeSizeLine(_, _)
BeforeSizeLine(in, k) ==
  IF k = 1 THEN <<>>
  ELSE BeforeSizeLine(in, k - 1)
       \o SizeLine(Len(in.chunks[k - 1]), in) \o in.chunks[k - 1] \o CRLF

\* C12 (bad size line): when the k-th size line is not hexadecimal,
\* read_chunks raises IncompleteRead carrying the k-1 chunks read before it
\* and reads nothing after that line.
C12_BadSizeLine ==
  (input.chunked /\ input.defect.kind = "bad" /\ ReaderDone)
  => /\ rd.phase = "raised"
     /\ rd.exc = "IncompleteRead"
     /\ rd.payload = Join(SubSeq(input.chunks, 1, input.defect.at - 1))
     /\ rd.fp = Drop(WireOf(input).body,
                     Len(BeforeSizeLine(input, input.defect.at))
                     + Len(input.defect.line))

\* C13 (the response is closed on every exit): when read_chunks returns or
\* raises, for a chunked or a non-chunked body, close() has run.
C13_ClosedOnExit ==
  ReaderDone => rd.closed

\* C14 (resolver gives no address): when real_dns_lookup returns a falsy
\* value for request.host, the live fetch returns None, opens no connection
\* and sends no request, and the record-mode archive has no entry for the
\* request afterwards.
C14_ResolverFalsy ==
  (Called /\ last.fetch = "record" /\ Ran.resolved = <<"">>)
  => /\ last.result = None
     /\ last.raised = "none"
     /\ Ran.live_returned = <<None>>
     /\ Ran.lookups = <<last.request.host>>
     /\ Ran.connections = <<>>
     /\ Ran.sent = <<>>
     /\ Ran.writes = <<>>
     /\ archive = last.before
     /\ ~ArchiveContains(archive, last.request)

\* a record-mode fetch whose host the resolver did not find
C14_Witness ==
  /\ Called /\ last.fetch = "record"
  /\ Ran.resolved = <<"">>
  /\ Ran.logs = <<"critical: Unable to find host ip">>
  /\ last.result = None

\* C15 (injection failure does not abort storage): with
\* use_deterministic_script set, when the injector raises
\* InjectionFailedException after a successful live fetch, the response is
\* stored under the request and returned, carrying the version, status,
\* reason, headers and chunks of the live fetch.
C15_InjectionFailureStores ==
  (Called /\ last.fetch = "record"
     /\ Ran.injections = <<"InjectionFailedException">>)
  => /\ last.raised = "none"
     /\ last.result =
          ArchivedHttpResponse(Ran.live_returned[1].version,
                               Ran.live_returned[1].status,
                               Ran.live_returned[1].reason,
                               Ran.live_returned[1].headers,
                               ReadChunksOf[Ran.live_returned[1]].chunks)
     /\ Ran.writes = <<last.request>>
     /\ ArchiveContains(archive, last.request)
     /\ archive[last.request] = last.result

\* a chunked live response stored after the injector failed on it
C15_Witness ==
  /\ Called /\ last.fetch = "record"
  /\ config.use_deterministic_script
  /\ Ran.injections = <<"InjectionFailedException">>
  /\ Ran.live_returned[1].status = 404
  /\ ArchiveContains(archive, last.request)
  /\ archive[last.request].response_data = <<<<"a">>, <<"z", "z">>>>
  /\ "error: Failed to inject deterministic script" \in
       {Ran.logs[i] : i \in DOMAIN Ran.logs}

\* positions of a collaborator's calls in a strategy call's trace
TracePositions(out, name) == {i \in DOMAIN out.trace : out.trace[i] = name}

\* C16 (tracker first): with a miss tracker, every record-mode fetch tells
\* the tracker once, with is_record_mode true and is_cache_miss false, and
\* does so before the archive lookup and before the live fetch, whether the
\* fetch is a dedup hit, a successful live fetch or a failed one.
C16_TrackerFirst ==
  (Called /\ last.fetch = "record" /\ config.cache_misses)
  => /\ Ran.tracker = <<record_request(last.request, TRUE, FALSE)>>
     /\ TracePositions(Ran, "cache_misses.record_request") = {1}
     /\ TracePositions(Ran, "http_archive.__contains__") = {2}
     /\ \A i \in TracePositions(Ran, "real_http_fetch") : i > 2

\* a failed live fetch, returning None, that was reported to the tracker
C16_Witness ==
  /\ Called /\ last.fetch = "record" /\ config.cache_misses
  /\ Ran.live_returned = <<None>>
  /\ last.result = None
  /\ Ran.tracker = <<record_request(last.request, TRUE, FALSE)>>
  /\ Ran.trace = <<"cache_misses.record_request",
                   "http_archive.__contains__", "real_http_fetch">>

\* C20 (previous_request): after a record-mode fetch that missed the archive
\* and went to the live fetch, self.previous_request holds that request.
C20_PreviousRequest ==
  (Called /\ last.fetch = "record" /\ Ran.lookups # <<>>)
  => previous_request = last.request

\* an archive step keeps every entry it finds
EntriesKept ==
  \A r \in DOMAIN archive :
    ArchiveContains(archive', r) /\ archive'[r] = archive[r]

\* C17 (write-once under sequential use): over any sequence of __call__,
\* SetRecordMode and SetReplayMode that do not overlap, an archive entry is
\* never changed or removed, the archived keys only grow, no request has more
\* than one live fetch that returned a response, and the store of line 176
\* never runs for a key that has an entry.
C17_WriteOnce ==
  /\ [][EntriesKept]_vars
  /\ [](/\ \A r \in Requests : live_fetches[r] <= 1
        /\ overwritten = {})

\* a record-mode repeat of a request that a live fetch stored earlier: the
\* entry is returned and nothing is fetched or written
C17_Witness ==
  /\ Called /\ last.fetch = "record"
  /\ live_fetches[last.request] = 1
  /\ Ran.lookups = <<>>
  /\ Ran.writes = <<>>
  /\ ArchiveContains(last.before, last.request)
  /\ archive = last.before
  /\ last.result = archive[last.request]
  /\ last.result # Prerecorded

\* the threads inside a call for request r, or just out of its last step
InCall(r) == {t \in Threads : threads[t].pc # "idle" /\ threads[t].request = r}

\* C18 (dedup needs per-key serialization): when the calls for one request
\* are serialized, no request has more than one live fetch that returned a
\* response and no store replaces an entry; two live fetches of a request, or
\* an entry replaced, happen only without the lock (the witness is such a
\* run: both calls pass the membership test before either stores).
C18_SerializedDedup ==
  \A r \in Requests :
    (live_fetches[r] > 1 \/ r \in overwritten) => schedule = "free"

\* two overlapping record-mode fetches of one request that was not archived:
\* both went to the live fetch and the second store replaced the first
C18_Witness ==
  /\ schedule = "free"
  /\ \E r \in Requests :
       /\ live_fetches[r] = 2
       /\ r \in overwritten
       /\ InCall(r) = Threads
       /\ \A t \in Threads :
            /\ threads[t].pc = "done"
            /\ threads[t].steps = <<[strategy |-> "record", step |-> "lookup"],
                                    [strategy |-> "record", step |-> "live fetch"],
                                    [strategy |-> "record", step |-> "store"]>>
            /\ threads[t].call.writes = <<r>>
       /\ threads["t1"].call.result # threads["t2"].call.result
       /\ archive[r] = threads["t2"].call.result

\* the steps a strategy takes over a whole call
CompleteSteps(strategy) ==
  IF strategy = "record"
    THEN {<<[strategy |-> "record", step |-> "lookup"]>>,
          <<[strategy |-> "record", step |-> "lookup"],
            [strategy |-> "record", step |-> "live fetch"]>>,
          <<[strategy |-> "record", step |-> "lookup"],
            [strategy |-> "record", step |-> "live fetch"],
            [strategy |-> "record", step |-> "store"]>>}
    ELSE {<<[strategy |-> "replay", step |-> "get"],
            [strategy |-> "replay", step |-> "closest"]>>}

\* C19 (no mode switch mid-call): a call runs, from its first step to its
\* last, the strategy that was active when it started, whatever
\* SetRecordMode and SetReplayMode calls arrive while it is in flight; its
\* result is that strategy's alone (a replay call touches neither network nor
\* archive, a record call asks for no closest match).
C19_BoundAtStart ==
  \A t \in Threads :
    threads[t].pc # "idle"
    => /\ threads[t].bound = (IF threads[t].mode_at_start = "SetRecordMode"
                                THEN "record" ELSE "replay")
       /\ \A i \in DOMAIN threads[t].steps :
            threads[t].steps[i].strategy = threads[t].bound
       /\ threads[t].pc = "done"
          => /\ threads[t].steps \in CompleteSteps(threads[t].bound)
             /\ threads[t].call.strategy = threads[t].bound
             /\ threads[t].bound = "replay"
                => /\ Offline(threads[t].call)
                   /\ threads[t].call.live_returned = <<>>
                   /\ threads[t].call.writes = <<>>
             /\ threads[t].bound = "record"
                => /\ threads[t].call.closest_calls = <<>>
                   /\ threads[t].call.diff_calls = <<>>

\* a record-mode call that SetReplayMode overtook: it still fetched live and
\* stored, and the dispatcher is in replay mode when it returns
C19_Witness ==
  /\ fetch = "replay"
  /\ modeSet = "SetReplayMode"
  /\ \E t \in Threads :
       /\ threads[t].pc = "done"
       /\ threads[t].switched
       /\ threads[t].bound = "record"
       /\ Len(threads[t].steps) = 3
       /\ threads[t].call.result # None
       /\ threads[t].call.writes = <<threads[t].request>>
       /\ archive[threads[t].request] = threads[t].call.result

====
